---------------------------- MODULE Spec2Model ----------------------------
(***************************************************************************)
(* llvm-klee (llvm/tools/llvm-klee/llvm-klee.cpp): for every module of a   *)
(* bitcode file, main() looks up the function named on the command line,   *)
(* scans its entry block for call instructions that carry a local-variable *)
(* metadata operand, and writes a KLEE harness to std::cout.               *)
(*                                                                         *)
(* Text written to std::cout is kept as the sequence of the operands of    *)
(* operator<<, a string ending in "\n" (or followed by std::endl) being    *)
(* split into its text and the token NL.                                   *)
(*                                                                         *)
(* The tool is run twice on the same file and function name, the two runs  *)
(* differing only in the -s option: out[r] and ArraySize[r] belong to run  *)
(* r.  Everything main() branches on is shared by the two runs.            *)
(***************************************************************************)
EXTENDS Integers, Sequences, FiniteSets, TLC

\* ------------------------------------------------------------------ bounds
MaxParams == 2      \* formal parameters of a function
MaxBlock == 2       \* instructions of an entry block
MaxMods == 1        \* modules of the bitcode file

\* --------------------------------------------------------- program constants
DefaultArraySize == 1024          \* cl::init(1024)

\* ------------------------------------------------------------- the inputs
Runs == {1, 2}
SizeOverrides == {64}             \* values given with -s in the second run
FunctionNames == {"add"}
Names == {"a", "b"}               \* names held by DILocalVariable metadata
GarbageNames == {"?"}             \* what a read through a wrong cast yields
IntWidths == {1, 8, 16, 32, 64, 128}
Pointees == {"i8", "struct"}

Types ==
    {[kind |-> "ptr", bits |-> 0, elem |-> e] : e \in Pointees}
    \cup {[kind |-> "int", bits |-> w, elem |-> ""] : w \in IntWidths}
    \cup {[kind |-> "float", bits |-> 0, elem |-> ""]}

\* An instruction of the entry block: a call to llvm.dbg.declare/llvm.dbg.value
\* whose operand 1 wraps a DILocalVariable called name ("dbg"), a call to any
\* other function ("call"), or an instruction that is no call ("other").
Instructions ==
    {[op |-> "dbg", name |-> n] : n \in Names}
    \cup {[op |-> "call", name |-> ""], [op |-> "other", name |-> ""]}

SeqsUpTo(S, n) == UNION {[1..k -> S] : k \in 0..n}

\* Function *F: not in scope outside the loop body ("none"), nullptr when
\* Module::getFunction finds no function of the name ("null"), or a function
\* with its formal parameters' types and its entry block ("func").
NoFunction == [ref |-> "none", params |-> <<>>, entry |-> <<>>]
NullFunction == [ref |-> "null", params |-> <<>>, entry |-> <<>>]

Functions ==
    {[ref |-> "func", params |-> p, entry |-> e] :
        p \in SeqsUpTo(Types, MaxParams), e \in SeqsUpTo(Instructions, MaxBlock)}

VARIABLES
    pc,            \* where main() is
    status,        \* "running", or how the process ended
    diag,          \* what ExitOnErr wrote to errs()
    FunctionName,  \* cl::opt FunctionName
    ArraySize,     \* cl::opt ArraySize, per run
    N,             \* IF.Mods.size()
    I,             \* the module loop's index
    F,             \* M->getFunction(FunctionName)
    arg_size,      \* F->arg_size()
    idx,           \* the binding index
    pos,           \* the entry-block iterator (1-based; Len+1 is end())
    args,          \* std::vector<std::string> args
    out            \* std::cout, per run: the text written for module I

vars == <<pc, status, diag, FunctionName, ArraySize, N, I, F, arg_size, idx,
          pos, args, out>>

\* ------------------------------------------------------------ the text
NL == "\n"

IsCallInst(inst) == inst.op \in {"dbg", "call"}

\* Lines 178-182: the widths the preamble defines an alias for.
AliasWidths == <<8, 16, 32, 64, 128>>

DefineLine(w) ==
    <<"#define ", "i" \o ToString(w), " ", "int" \o ToString(w) \o "_t", NL>>

Preamble ==
    <<"#include <stdint.h>", NL, "#include <stdlib.h>", NL, NL,
      "#ifdef __KLEE__", NL, "#include <klee/klee.h>", NL, "#endif", NL, NL>>
    \o DefineLine(AliasWidths[1]) \o DefineLine(AliasWidths[2])
    \o DefineLine(AliasWidths[3]) \o DefineLine(AliasWidths[4])
    \o DefineLine(AliasWidths[5])
    \o <<NL>>

MainOpen == <<"int main(int argc, char** argv) {", NL, "#ifdef __KLEE__", NL>>

\* Lines 205-207 and 215-217: the klee_make_symbolic call for name.
SymbolizeLine(open, name) ==
    <<open, name, ", sizeof(", name, "), \"", name, "\");", NL>>

\* Lines 203-207 with the default extent written whatever -s says.
PtrDeclDefaultOnly(name, size) ==
    <<"  char ", name, "[", ToString(DefaultArraySize), "];", NL>>
    \o SymbolizeLine("  klee_make_symbolic(", name)

\* Lines 203-207: a char buffer of size bytes, made symbolic.
PtrDecl(name, size) ==
    <<"  char ", name, "[", ToString(size), "];", NL>>
    \o SymbolizeLine("  klee_make_symbolic(", name)

\* Lines 209-212 with the width taken in bytes.
IntSizeInBytes(ty) == IF ty.kind = "int" THEN ty.bits \div 8 ELSE 0

\* Lines 209-212: the bit width of an integer type, 0 for any other type.
IntSize(ty) == IF ty.kind = "int" THEN ty.bits ELSE 0

\* Lines 213-217 with the two statements in the other order.
IntDeclSymbolizeFirst(name, size) ==
    SymbolizeLine("  klee_make_symbolic(&", name)
    \o <<"  i", ToString(size), " ", name, ";", NL>>

\* Lines 213-217: a variable of type i<size>, made symbolic.
IntDecl(name, size) ==
    <<"  i", ToString(size), " ", name, ";", NL>>
    \o SymbolizeLine("  klee_make_symbolic(&", name)

\* Lines 199-222: the declaration and the klee_make_symbolic call written for
\* the formal parameter of type ty, bound to name, with -s given as size.
DeclLines(ty, name, size) ==
    IF ty.kind = "ptr" THEN PtrDecl(name, size) ELSE IntDecl(name, IntSize(ty))

\* Line 230, i < arg_size - 1 on unsigned operands: for n = 0 the right side
\* wraps to UINT_MAX, which every index of a vector is below.
BeforeLast(i, n) == IF n = 0 THEN TRUE ELSE i < n - 1

\* Lines 227-235: what the loop over args writes from its i-th element on
\* (i counts from 0).
RECURSIVE CallArgs(_, _, _)
CallArgs(a, i, n) ==
    IF i >= Len(a) THEN <<>>
    ELSE <<a[i + 1]>>
         \o (IF BeforeLast(i, n) THEN <<", ">> ELSE <<");", NL>>)
         \o CallArgs(a, i + 1, n)

CallLine(fn, a, n) == <<"  ", fn, "(">> \o CallArgs(a, 0, n)

Epilogue == <<"#endif", NL, NL, "  return 0;", NL, "}", NL>>

Write(text) == out' = [r \in Runs |-> out[r] \o text[r]]
Same(text) == [r \in Runs |-> text]

\* ------------------------------------------------------------ the program
Init ==
    /\ pc = "read"
    /\ status = "running"
    /\ diag = <<>>
    /\ FunctionName \in FunctionNames
    /\ \E s \in SizeOverrides : ArraySize = [r \in Runs |-> IF r = 1 THEN DefaultArraySize ELSE s]
    /\ N = 0
    /\ I = 0
    /\ F = NoFunction
    /\ arg_size = 0
    /\ idx = 0
    /\ pos = 1
    /\ args = <<>>
    /\ out = [r \in Runs |-> <<>>]

\* ExitOnErr: the banner and the message go to errs(), then exit(1).
Fatal(msg) ==
    /\ pc' = "exit"
    /\ status' = "exit1"
    /\ diag' = diag \o <<"llvm-klee: error: ", msg>>

\* A signal ends the process; nothing of the tool's own goes to errs().
Crash(sig) ==
    /\ pc' = "exit"
    /\ status' = sig
    /\ UNCHANGED diag

\* Lines 153-158: the file is read and split into its modules.
ReadInput ==
    /\ pc = "read"
    /\ \/ /\ Fatal("cannot read the input")
          /\ UNCHANGED N
       \/ /\ \E n \in 0..MaxMods : N' = n
          /\ pc' = "loop"
          /\ UNCHANGED <<status, diag>>
    /\ UNCHANGED <<FunctionName, ArraySize, I, F, arg_size, idx, pos, args, out>>

\* Lines 160-169: module I is materialized and the function looked up.  With
\* no function of that name F is nullptr and F->arg_size() reads through it:
\* the read faults, or it is put off until arg_size is first used.
BeginModule ==
    /\ pc = "loop"
    /\ I < N
    /\ \/ /\ Fatal("cannot materialize the module")
          /\ UNCHANGED <<F, arg_size, idx>>
       \/ \E f \in Functions :
            /\ F' = f
            /\ arg_size' = Len(f.params)
            /\ idx' = 0
            /\ pc' = "emit"
            /\ UNCHANGED <<status, diag>>
       \/ /\ F' = NullFunction
          /\ UNCHANGED <<arg_size, idx>>
          /\ \/ Crash("SIGSEGV")
             \/ /\ pc' = "emit"
                /\ UNCHANGED <<status, diag>>
    /\ UNCHANGED <<FunctionName, ArraySize, N, I, pos, args, out>>

\* Lines 170-187: the preamble, the opening of main and of the gate; then the
\* entry block is taken (through nullptr when the lookup failed).
EmitPreamble ==
    /\ pc = "emit"
    /\ Write(Same(Preamble \o MainOpen))
    /\ \/ /\ F.ref = "func"
          /\ pos' = 1
          /\ args' = <<>>
          /\ pc' = "scan"
          /\ UNCHANGED <<status, diag>>
       \/ /\ F.ref = "null"
          /\ Crash("SIGSEGV")
          /\ UNCHANGED <<pos, args>>
    /\ UNCHANGED <<FunctionName, ArraySize, N, I, F, arg_size, idx>>

\* Lines 196-223: name is bound to index idx and declared.
Bind(name) ==
    /\ args' = Append(args, name)
    /\ Write([r \in Runs |-> DeclLines(F.params[idx + 1], name, ArraySize[r])])
    /\ idx' = idx + 1
    /\ pos' = pos + 1
    /\ UNCHANGED <<pc, status, diag>>

\* Lines 188-225, one iteration of the loop over the entry block.  Every
\* CallInst is taken for a debug record: cast<MetadataAsValue> of operand 1
\* of a call to another function fails its assertion, or without assertions
\* reads a name from whatever is there.
ScanStep ==
    /\ pc = "scan"
    /\ pos <= Len(F.entry)
    /\ idx < arg_size
    /\ \/ /\ ~IsCallInst(F.entry[pos])
          /\ pos' = pos + 1
          /\ UNCHANGED <<pc, status, diag, idx, args, out>>
       \/ /\ F.entry[pos].op = "dbg"
          /\ Bind(F.entry[pos].name)
       \/ /\ F.entry[pos].op = "call"
          /\ \/ \E sig \in {"SIGABRT", "SIGSEGV"} :
                  /\ Crash(sig)
                  /\ UNCHANGED <<idx, pos, args, out>>
             \/ \E g \in GarbageNames : Bind(g)
    /\ UNCHANGED <<FunctionName, ArraySize, N, I, F, arg_size>>

\* Lines 188-190 and 226-235: the loop ends at the end of the block or at
\* idx >= arg_size, and the call is written.
EmitCall ==
    /\ pc = "scan"
    /\ (pos > Len(F.entry) \/ idx >= arg_size)
    /\ Write(Same(CallLine(FunctionName, args, arg_size)))
    /\ pc' = "close"
    /\ UNCHANGED <<status, diag, FunctionName, ArraySize, N, I, F, arg_size,
                   idx, pos, args>>

\* Lines 237-240: the gate and main are closed; the document is complete.
EmitEpilogue ==
    /\ pc = "close"
    /\ Write(Same(Epilogue))
    /\ pc' = "next"
    /\ UNCHANGED <<status, diag, FunctionName, ArraySize, N, I, F, arg_size,
                   idx, pos, args>>

\* Lines 160 and 241: the body's locals (M, F, arg_size, idx, BB, args) end
\* with the iteration, and ++I.  out goes on to the next module's text.
NextModule ==
    /\ pc = "next"
    /\ I' = I + 1
    /\ F' = NoFunction
    /\ arg_size' = 0
    /\ idx' = 0
    /\ pos' = 1
    /\ args' = <<>>
    /\ out' = [r \in Runs |-> <<>>]
    /\ pc' = "loop"
    /\ UNCHANGED <<status, diag, FunctionName, ArraySize, N>>

\* Line 243.
Finish ==
    /\ pc = "loop"
    /\ I >= N
    /\ pc' = "exit"
    /\ status' = "exit0"
    /\ UNCHANGED <<diag, FunctionName, ArraySize, N, I, F, arg_size, idx, pos,
                   args, out>>

Next ==
    \/ ReadInput
    \/ BeginModule
    \/ EmitPreamble
    \/ ScanStep
    \/ EmitCall
    \/ EmitEpilogue
    \/ NextModule
    \/ Finish

Spec == Init /\ [][Next]_vars

\* ------------------------------------------------- reading the document
\* A debug-declaration record: a call to the debug-declare/debug-value
\* intrinsic.
IsDebugRecord(inst) == inst.op = "dbg"

\* The names of the debug-declaration records of a block, in program order.
QualNames(block) ==
    LET recs == SelectSeq(block, IsDebugRecord)
    IN  [k \in 1..Len(recs) |-> recs[k].name]

Take(s, n) == SubSeq(s, 1, IF n < Len(s) THEN n ELSE Len(s))

RecognizedWidths == {AliasWidths[j] : j \in DOMAIN AliasWidths}

Unsupported(ty) ==
    /\ ty.kind # "ptr"
    /\ ~(ty.kind = "int" /\ ty.bits \in RecognizedWidths)

HeadLen == Len(Preamble) + Len(MainOpen)

DeclOpeners == {"  char ", "  i"}
SymOpeners == {"  klee_make_symbolic(", "  klee_make_symbolic(&"}

\* How many tokens are written per bound parameter.
DeclTokens == Len(IntDecl("", 0))

\* The tokens of the k-th declaration and symbolization pair of a document.
Group(doc, k) ==
    SubSeq(doc, HeadLen + DeclTokens * (k - 1) + 1, HeadLen + DeclTokens * k)

\* How many declarations a document holds.
NumDecls(doc) == Cardinality({i \in DOMAIN doc : doc[i] \in DeclOpeners})

\* Where the call to the target function opens its argument list.
CallPos(doc) == {i \in DOMAIN doc : doc[i] = "("}
CallEmitted(doc) == CallPos(doc) # {}

\* The names listed from position i on, each followed by ", " but the last.
RECURSIVE ArgsFrom(_, _)
ArgsFrom(doc, i) ==
    IF i > Len(doc) \/ doc[i] = "#endif" THEN <<>>
    ELSE <<doc[i]>> \o (IF i < Len(doc) /\ doc[i + 1] = ", "
                        THEN ArgsFrom(doc, i + 2) ELSE <<>>)

ListedArgs(doc) ==
    IF CallEmitted(doc) THEN ArgsFrom(doc, (CHOOSE i \in CallPos(doc) : TRUE) + 1)
    ELSE <<>>

\* The text of the call statement after its "(", up to the closing of the gate.
CallTail(doc) ==
    LET p == CHOOSE i \in CallPos(doc) : TRUE
        ends == {i \in DOMAIN doc : i > p /\ doc[i] = "#endif"}
        q == IF ends = {} THEN Len(doc) + 1 ELSE CHOOSE i \in ends : TRUE
    IN  SubSeq(doc, p + 1, q - 1)

Ended == status # "running"
EndedInError == status \notin {"running", "exit0"}

\* The work on module I is over: its document is complete, or the run ended
\* inside the loop body.
ModuleOver == F.ref = "func" /\ pc \in {"next", "exit"}

\* ------------------------------------------------------------ the claims

\* C1: a function with P formal parameters whose entry block holds exactly P
\* debug-declaration records gets a harness that declares exactly P
\* variables and whose call lists exactly P arguments, the k-th being the
\* name of the k-th record.
C1_ExactRecordsGiveFullHarness ==
    (ModuleOver /\ Len(QualNames(F.entry)) = Len(F.params)) =>
        \A r \in Runs :
            /\ NumDecls(out[r]) = Len(F.params)
            /\ CallEmitted(out[r])
            /\ ListedArgs(out[r]) = QualNames(F.entry)

\* C2: with fewer debug-declaration records than formal parameters the run
\* ends in a fatal error and no call to the target function is written.
C2_UndercountRejected ==
    (F.ref = "func" /\ Len(QualNames(F.entry)) < Len(F.params)) =>
        /\ \A r \in Runs : ~CallEmitted(out[r])
        /\ pc \notin {"close", "next"}
        /\ Ended => EndedInError

\* C3: a bound parameter of an integer width other than 8, 16, 32, 64, 128,
\* or of a type that is neither pointer nor integer, ends the run in a fatal
\* error, and no declaration is written for it.
C3_UnsupportedTypeRejected ==
    F.ref = "func" =>
        \A k \in 1..Len(args) :
            Unsupported(F.params[k]) =>
                /\ EndedInError
                /\ \A r \in Runs : NumDecls(out[r]) < k

\* What the document's preamble defines the type name alias as ("" if
\* nothing).
AliasTarget(doc, alias) ==
    LET at == {i \in 1..(Len(doc) - 3) : doc[i] = "#define " /\ doc[i + 1] = alias}
    IN  IF at = {} THEN "" ELSE doc[(CHOOSE i \in at : TRUE) + 3]

\* The size in bytes of the C type intW_t.
TypeBytes(type) ==
    LET ws == {w \in RecognizedWidths : type = "int" \o ToString(w) \o "_t"}
    IN  IF ws = {} THEN 0 ELSE (CHOOSE w \in ws : TRUE) \div 8

\* What sizeof(variable) comes to for the variable that group g declares with
\* a sized-integer alias: the size of the type the alias stands for.
ExtentBytes(doc, g) == TypeBytes(AliasTarget(doc, "i" \o g[2]))

\* C4: a bound integer parameter of width W in {8, 16, 32, 64, 128} is
\* declared with the alias iW, which the preamble defines as intW_t, and the
\* extent given to its klee_make_symbolic call, sizeof of that variable, is
\* W / 8 bytes.
C4_SizedIntegerDeclaration ==
    F.ref = "func" =>
        \A k \in 1..Len(args) : \A r \in Runs :
            LET ty == F.params[k]
                g == Group(out[r], k)
            IN  (ty.kind = "int" /\ ty.bits \in RecognizedWidths) =>
                    /\ SubSeq(g, 1, 6) = <<"  i", ToString(ty.bits), " ", args[k], ";", NL>>
                    /\ AliasTarget(out[r], "i" \o ToString(ty.bits))
                           = "int" \o ToString(ty.bits) \o "_t"
                    /\ SubSeq(g, 7, 11) =
                           <<"  klee_make_symbolic(&", g[4], ", sizeof(", g[4], "), \"">>
                    /\ ExtentBytes(out[r], g) * 8 = ty.bits

C4_Witness ==
    /\ pc = "next"
    /\ args = QualNames(F.entry)
    /\ Len(args) = 2
    /\ \A k \in 1..2 : F.params[k].kind = "int" /\ F.params[k].bits \in {8, 128}
    /\ F.params[1] # F.params[2]

\* Where the two runs' documents may differ: the array extent of the
\* declaration of a bound pointer parameter.
IsArrayExtent(i) ==
    \E k \in 1..Len(args) :
        /\ F.ref = "func"
        /\ F.params[k].kind = "ptr"
        /\ i = HeadLen + DeclTokens * (k - 1) + 4

\* C5: every bound pointer parameter is declared as a char buffer of exactly
\* ArraySize bytes (1024 when -s is not given) whatever it points to, and
\* two runs that differ only in -s write documents that differ only in those
\* array extents.
C5_ArraySizeOnlySetsExtents ==
    /\ ArraySize[1] = DefaultArraySize
    /\ F.ref = "func" =>
          \A k \in 1..Len(args) : \A r \in Runs :
              F.params[k].kind = "ptr" =>
                  SubSeq(Group(out[r], k), 1, 6) =
                      <<"  char ", args[k], "[", ToString(ArraySize[r]), "];", NL>>
    /\ Len(out[1]) = Len(out[2])
    /\ \A i \in DOMAIN out[1] : out[1][i] # out[2][i] => IsArrayExtent(i)

C5_Witness ==
    /\ pc = "next"
    /\ args = QualNames(F.entry)
    /\ Len(args) = 2
    /\ F.params[1].kind = "ptr" /\ F.params[1].elem = "struct"
    /\ F.params[2].kind = "int"
    /\ ArraySize[1] # ArraySize[2]
    /\ out[1] # out[2]

\* C6: when the function name resolves to no function of the module, the run
\* ends at once in an error state with a diagnostic, and nothing of a
\* document is written for that module.
C6_UnresolvedNameSurfaced ==
    F.ref = "null" =>
        /\ pc = "exit"
        /\ EndedInError
        /\ diag # <<>>
        /\ \A r \in Runs : out[r] = <<>>

\* Group g is a declaration line for name followed at once by the
\* symbolization call of that variable, labelled name.
IsDeclThenSymbolize(g, name) ==
    /\ Len(g) = DeclTokens
    /\ g[1] \in DeclOpeners
    /\ g[IF g[1] = "  char " THEN 2 ELSE 4] = name
    /\ g[6] = NL
    /\ g[7] \in SymOpeners
    /\ g[8] = name /\ g[9] = ", sizeof(" /\ g[10] = name
    /\ g[11] = "), \"" /\ g[12] = name /\ g[13] = "\");" /\ g[14] = NL

\* The tokens that open a part of the document's body.
PartOpeners == DeclOpeners \cup SymOpeners \cup {"("}

\* C7: a document's parts come in one order: the preamble, the opening of
\* main and of the gate, then for each bound parameter in binding order its
\* declaration followed at once by its symbolization call labelled with the
\* recovered name, then one call to the target function, then the closing
\* of the gate, return 0 and the closing brace; no declaration or
\* symbolization is written before the gate or after the call.
C7_FixedOrderOfParts ==
    \A r \in Runs :
        LET doc == out[r]
            n == Len(args)
            bodyEnd == HeadLen + DeclTokens * n
        IN  /\ doc # <<>> => Take(doc, HeadLen) = Preamble \o MainOpen
            /\ pc \in {"scan", "close", "next"} =>
                  /\ Len(doc) >= bodyEnd
                  /\ \A k \in 1..n : IsDeclThenSymbolize(Group(doc, k), args[k])
                  /\ \A i \in DOMAIN doc :
                        doc[i] \in DeclOpeners \cup SymOpeners =>
                            /\ i > HeadLen /\ i <= bodyEnd
                            /\ (i - HeadLen) % DeclTokens \in {1, 7}
            /\ pc = "scan" => Len(doc) = bodyEnd
            /\ pc \in {"close", "next"} =>
                  /\ Len(doc) >= bodyEnd + 3
                  /\ SubSeq(doc, bodyEnd + 1, bodyEnd + 3) = <<"  ", FunctionName, "(">>
                  /\ CallPos(doc) = {bodyEnd + 3}
            /\ pc = "next" =>
                  /\ SubSeq(doc, Len(doc) - Len(Epilogue) + 1, Len(doc)) = Epilogue
                  /\ \A i \in DOMAIN doc :
                        doc[i] \in {"#endif", "  return 0;", "}"} /\ i > HeadLen
                            => i > Len(doc) - Len(Epilogue)

C7_Witness ==
    /\ pc = "next"
    /\ args = QualNames(F.entry)
    /\ Len(args) = 2
    /\ args[1] # args[2]
    /\ F.params[1].kind = "int" /\ F.params[2].kind = "ptr"

\* C8: an entry-block instruction that is no call to the debug-declare or
\* debug-value intrinsic, a call to another function included, is skipped:
\* it makes no binding, leaves the binding index alone, writes nothing and
\* does not end the run.
C8_NonDebugInstructionSkipped ==
    [][(/\ pc = "scan"
        /\ pos <= Len(F.entry)
        /\ idx < arg_size
        /\ ~IsDebugRecord(F.entry[pos]))
       => (/\ args' = args
           /\ idx' = idx
           /\ out' = out
           /\ status' = "running"
           /\ pc' = "scan")]_vars

\* The representation of a supported static type opens its declaration.
DeclaredAs(ty, g) ==
    \/ ty.kind = "ptr" /\ g[1] = "  char "
    \/ ty.kind = "int" /\ g[1] = "  i" /\ g[2] = ToString(ty.bits)
    \/ Unsupported(ty)

\* C9: during the scan the number of bindings equals the binding index and
\* never exceeds P; the k-th debug-declaration record in program order is
\* bound to index k, once, and declared with the representation of formal
\* parameter k's type; records after the first P give no binding, no
\* declaration and no argument.
C9_RecordsBoundInOrder ==
    (F.ref = "func" /\ pc \in {"scan", "close", "next", "exit"}) =>
        /\ Len(args) = idx
        /\ idx <= arg_size
        /\ args = Take(QualNames(SubSeq(F.entry, 1, pos - 1)), arg_size)
        /\ pc \in {"close", "next"} => args = Take(QualNames(F.entry), arg_size)
        /\ \A r \in Runs :
              /\ NumDecls(out[r]) = Len(args)
              /\ \A k \in 1..Len(args) : DeclaredAs(F.params[k], Group(out[r], k))
              /\ pc = "next" => ListedArgs(out[r]) = args

\* C10: whenever the call to the target function is written, the statement
\* is complete: the names are separated by ", " and the statement is closed
\* by ");" before the gate is closed, for every parameter count, zero
\* included.
C10_CallStatementClosed ==
    \A r \in Runs :
        (pc \in {"close", "next"} /\ CallEmitted(out[r])) =>
            LET tail == CallTail(out[r])
                n == Len(ListedArgs(out[r]))
            IN  /\ Len(tail) = (IF n = 0 THEN 2 ELSE 2 * n + 1)
                /\ \A j \in 1..(n - 1) : tail[2 * j] = ", "
                /\ SubSeq(tail, Len(tail) - 1, Len(tail)) = <<");", NL>>

=============================================================================
